---------------------------- MODULE Spec2Model ----------------------------
(***************************************************************************)
(* Model of the calibration and allocation engine of OnSSTOVE              *)
(* (src/onsstove/onsstove.py) and of the urban factor search of            *)
(* src/onstove/raster.py.                                                  *)
(*                                                                         *)
(* Numbers.  The program computes with IEEE doubles in pandas columns.     *)
(* The model computes with exact rationals [n |-> numerator, d |->         *)
(* denominator], reduced, d > 0.  The value with d = 0 is NaN: it is what  *)
(* 0/0 gives in a pandas column, every comparison with it is false, and    *)
(* pandas sums skip it.  Rounding of doubles is modelled in DoubleSpec     *)
(* only.                                                                   *)
(***************************************************************************)
EXTENDS Integers, Sequences, FiniteSets, TLC

(***************************************************************************)
(* Bounds of the model.                                                    *)
(***************************************************************************)
\* number of populated cells (rows of gdf before any split)
NCells == 2
\* the threshold step of Phase A and B is 1/StepDen (0.0001 in the program)
StepDen == 3

(***************************************************************************)
(* Exact rational arithmetic with NaN.                                     *)
(***************************************************************************)
Abs(x) == IF x < 0 THEN -x ELSE x

RECURSIVE GCD(_, _)
GCD(a, b) == IF b = 0 THEN a ELSE GCD(b, a % b)

NaN == [n |-> 0, d |-> 0]

IsNaN(x) == x.d = 0

\* the reduced fraction a/b; 0/0 is NaN (the model never divides a non-zero by 0)
Frac(a, b) ==
    IF b = 0 THEN NaN
    ELSE LET g == GCD(Abs(a), Abs(b))
             s == IF b < 0 THEN -1 ELSE 1
         IN  [n |-> (s * a) \div g, d |-> (s * b) \div g]

R(k) == [n |-> k, d |-> 1]

RAdd(x, y) == IF IsNaN(x) \/ IsNaN(y) THEN NaN ELSE Frac(x.n * y.d + y.n * x.d, x.d * y.d)

RSub(x, y) == IF IsNaN(x) \/ IsNaN(y) THEN NaN ELSE Frac(x.n * y.d - y.n * x.d, x.d * y.d)

RMul(x, y) == IF IsNaN(x) \/ IsNaN(y) THEN NaN ELSE Frac(x.n * y.n, x.d * y.d)

RDiv(x, y) == IF IsNaN(x) \/ IsNaN(y) THEN NaN ELSE Frac(x.n * y.d, x.d * y.n)

\* comparisons: false as soon as one side is NaN
RLe(x, y) == ~IsNaN(x) /\ ~IsNaN(y) /\ x.n * y.d <= y.n * x.d

RLt(x, y) == ~IsNaN(x) /\ ~IsNaN(y) /\ x.n * y.d < y.n * x.d

REq(x, y) == ~IsNaN(x) /\ ~IsNaN(y) /\ x.n * y.d = y.n * x.d

\* Series.sum(): NaN entries are skipped, the empty sum is 0
RECURSIVE SumSeq(_)
SumSeq(s) ==
    IF s = << >> THEN R(0)
    ELSE IF IsNaN(Head(s)) THEN SumSeq(Tail(s))
    ELSE RAdd(Head(s), SumSeq(Tail(s)))

\* Series.max() and Series.min() of a column without NaN
RECURSIVE MaxSeq(_)
MaxSeq(s) ==
    IF Len(s) = 1 THEN s[1]
    ELSE LET m == MaxSeq(Tail(s)) IN IF RLt(Head(s), m) THEN m ELSE Head(s)

RECURSIVE MinSeq(_)
MinSeq(s) ==
    IF Len(s) = 1 THEN s[1]
    ELSE LET m == MinSeq(Tail(s)) IN IF RLt(m, Head(s)) THEN m ELSE Head(s)

\* the rows of a table that satisfy a mask, in order
RECURSIVE SelectIdx(_, _)
SelectIdx(mask, k) ==
    IF k > Len(mask) THEN << >>
    ELSE IF mask[k] THEN <<k>> \o SelectIdx(mask, k + 1)
    ELSE SelectIdx(mask, k + 1)


(***************************************************************************)
(* Inputs: the columns of the cell table and the scenario parameters.      *)
(***************************************************************************)
\* Calibrated_pop of a cell (people)
PopVals == {0, 1, 3}
\* Elec_dist of a cell (km to the nearest transformer or line)
DistVals == {0, 1}
\* Night_lights of a cell
LightVals == {0, 1}
\* specs["Elec_rate"]
RateVals == {Frac(0, 1), Frac(1, 4), Frac(1, 2), Frac(1, 1)}
\* specs["infra_weight"], specs["Min_Elec_Pop"], specs["Min_Night_Lights"]
WeightVals == {<<1, 1, 1>>, <<2, 1, 1>>}

\* specs["Rural_HHsize"], specs["Urban_HHsize"]: people per household
HHsizeVals == {<<2, 1>>}
\* the net-benefit columns in the column order of gdf
Techs == <<"LPG", "Electricity", "Biogas">>
\* net benefit of a cell under each technology of Techs
NBProfiles == {<<6, 10, 6>>, <<10, 10, 6>>, <<6, 10, 10>>, <<2, 6, 10>>, <<-3, -1, -2>>}
\* IsUrban columns that the urban classification leaves: 0 rural, 1 peri-urban, 2 urban
UrbanColumns == {[c \in 1..NCells |-> 0], [c \in 1..NCells |-> IF c = 1 THEN 2 ELSE 1]}

Cells == 1..NCells

(***************************************************************************)
(* State.                                                                  *)
(*   pc               where the analysis session is in the pipeline        *)
(*   gdf              self.gdf: a sequence of rows; row.idx is the pandas  *)
(*                    index label (the identity of the cell)               *)
(*   specs            self.specs                                           *)
(*   combined_weight  self.combined_weight, a Series over the index        *)
(*   self_i           self.i                                               *)
(*   i, elec_pop, total_pop, factor                                        *)
(*                    the locals of current_elec / final_elec              *)
(***************************************************************************)
VARIABLES pc, gdf, specs, combined_weight, self_i, i, elec_pop, total_pop, factor

(***************************************************************************)
(* State of the urban factor search.                                       *)
(*   variant         "manual": OnSSTOVE.calibrate_urban_manual, on gdf;    *)
(*                   "raster": calibrate_urban of raster.py, on clusters   *)
(*   clusters        the table of calibrate_urban: Population, Area,       *)
(*                   IsUrban                                               *)
(*   cell_area       self.cell_size[0] ** 2 / 1000000, in km2              *)
(*   urban_current, pop_tot, urban_modelled, urban_factor, urban_i         *)
(*                   the locals urban_current, pop_tot, urban_modelled,    *)
(*                   factor and i of the search; urban_factor is the       *)
(*                   exact value num / 10^exp, num a sequence of base      *)
(*                   10000 digits, least significant first                 *)
(***************************************************************************)
VARIABLES variant, clusters, cell_area, urban_current, pop_tot, urban_modelled,
          urban_factor, urban_i

(***************************************************************************)
(* State of a call of one of the functions of the score construction on    *)
(* its own (calibrate_current_pop on gdf and specs, normalized on a column *)
(* of gdf, DataProcessor.index on layers).                                 *)
(*   layers          the argument of DataProcessor.index: a sequence of    *)
(*                   [weight, layer], layer the normalized raster of the   *)
(*                   layer, one value per cell                             *)
(*   ret             how the call of normalized or index ended: outcome    *)
(*                   "returned" with the value returned                    *)
(***************************************************************************)
VARIABLES layers, ret

(***************************************************************************)
(* State of a session whose stages are called in any order.                *)
(*   columns         the names of the columns of self.gdf                  *)
(*   attributes      the attributes of the session that hold a value:      *)
(*                   "i" (self.i is {} until current_elec sets it) and     *)
(*                   "combined_weight" (not set by __init__)               *)
(*   completed       the stages that have returned normally so far         *)
(*   called          the stage called last                                 *)
(*   raised          the exception that ended that call, "none" if it      *)
(*                   returned                                              *)
(*   wrote           the columns that call assigned                        *)
(***************************************************************************)
VARIABLES columns, attributes, completed, called, raised, wrote

\* the locals of the electrification phases
evars == <<combined_weight, self_i, i, elec_pop, total_pop, factor>>

\* the state of the urban factor search
uvars == <<variant, clusters, cell_area, urban_current, pop_tot, urban_modelled,
           urban_factor, urban_i>>

\* the state of a single call
cvars == <<layers, ret>>

\* the state of the session of stages
ovars == <<columns, attributes, completed, called, raised, wrote>>

vars == <<pc, gdf, specs, evars, uvars, cvars, ovars>>

Col(name) == [k \in 1..Len(gdf) |-> gdf[k][name]]

\* the threshold step, 0.0001 in the program
Step == Frac(1, StepDen)

InitRow(c, pop, dist, ntl) ==
    [idx |-> c,
     Calibrated_pop |-> R(pop), Elec_dist |-> R(dist), Night_lights |-> R(ntl),
     Current_elec |-> 0, Elec_pop_calib |-> NaN,
     IsUrban |-> 0, Households |-> NaN,
     net_benefit |-> << >>, max_benefit_tech |-> "", maximum_net_benefit |-> NaN]

Init ==
    /\ pc = "start"
    /\ \E pop \in [Cells -> PopVals], dist \in [Cells -> DistVals], ntl \in [Cells -> LightVals] :
          gdf = [c \in Cells |-> InitRow(c, pop[c], dist[c], ntl[c])]
    /\ \E r \in RateVals, w \in WeightVals, h \in HHsizeVals :
          specs = [Elec_rate |-> r, infra_weight |-> R(w[1]), Min_Elec_Pop |-> R(w[2]),
                   Min_Night_Lights |-> R(w[3]),
                   Rural_HHsize |-> R(h[1]), Urban_HHsize |-> R(h[2])]
    /\ combined_weight = << >>
    /\ self_i = NaN
    /\ i = NaN
    /\ elec_pop = NaN
    /\ total_pop = NaN
    /\ factor = NaN
    /\ variant = "none"
    /\ clusters = << >>
    /\ cell_area = 0
    /\ urban_current = NaN
    /\ pop_tot = NaN
    /\ urban_modelled = NaN
    /\ urban_factor = [num |-> <<1>>, exp |-> 0]
    /\ urban_i = 0
    /\ layers = << >>
    /\ ret = << >>
    /\ columns = {}
    /\ attributes = {}
    /\ completed = {}
    /\ called = "none"
    /\ raised = "none"
    /\ wrote = {}

(***************************************************************************)
(* normalized and normalize_for_electricity                                *)
(***************************************************************************)
\* a rescaling that ignores its inverse argument
normalized_SameWay(column, inverse) ==
    [k \in 1..Len(column) |->
        RDiv(RSub(column[k], MinSeq(column)), RSub(MaxSeq(column), MinSeq(column)))]

\* OnSSTOVE.normalized: min-max rescaling of a column, 0/0 = NaN when max = min
normalized(column, inverse) ==
    LET mx == MaxSeq(column)
        mn == MinSeq(column)
    IN  [k \in 1..Len(column) |->
            IF inverse THEN RDiv(RSub(mx, column[k]), RSub(mx, mn))
            ELSE RDiv(RSub(column[k], mn), RSub(mx, mn))]

\* OnSSTOVE.normalize_for_electricity: the value of self.combined_weight
CombinedWeight ==
    LET elec_dist == normalized(Col("Elec_dist"), TRUE)
        ntl == normalized(Col("Night_lights"), FALSE)
        pop == normalized(Col("Calibrated_pop"), FALSE)
        wsum == RAdd(RAdd(specs.infra_weight, specs.Min_Elec_Pop), specs.Min_Night_Lights)
    IN  [k \in 1..Len(gdf) |->
            RDiv(RAdd(RAdd(RMul(elec_dist[k], specs.infra_weight),
                           RMul(pop[k], specs.Min_Elec_Pop)),
                      RMul(ntl[k], specs.Min_Night_Lights)),
                 wsum)]

(***************************************************************************)
(* Phase A: current_elec                                                   *)
(***************************************************************************)
\* total_pop * elec_rate
Target == RMul(total_pop, specs.Elec_rate)

\* a loop test that stops as soon as the target is met: "<" for "<="
LoopCondA_Strict == RLt(elec_pop, RMul(total_pop, specs.Elec_rate))

\* a loop test against the whole population instead of the target
LoopCondA_AgainstTotal == RLe(elec_pop, total_pop)

\* the test of the while loop of current_elec
LoopCondA == RLe(elec_pop, Target)

\* current_elec up to its loop: lines 390-397
CurrentElecStart ==
    /\ pc = "start"
    /\ combined_weight' = CombinedWeight
    /\ gdf' = [k \in 1..Len(gdf) |-> [gdf[k] EXCEPT !.Current_elec = 0]]
    /\ i' = R(1)
    /\ elec_pop' = R(0)
    /\ total_pop' = SumSeq(Col("Calibrated_pop"))
    /\ pc' = "A_loop"
    /\ UNCHANGED <<specs, self_i, factor, uvars, cvars, ovars>>

\* a mask that leaves out the cells whose score is the threshold itself
MaskA_Strict(t) == [k \in 1..Len(gdf) |-> RLt(t, combined_weight[k])]

\* a mask that keeps only the cells whose score is the threshold itself
MaskA_Exact(t) == [k \in 1..Len(gdf) |-> REq(t, combined_weight[k])]

\* bool = (self.combined_weight >= i)
MaskA(t) == [k \in 1..Len(gdf) |-> RLe(t, combined_weight[k])]

\* the Calibrated_pop of the rows of a mask, summed
PopOf(mask) == SumSeq([k \in 1..Len(gdf) |-> IF mask[k] THEN gdf[k].Calibrated_pop ELSE NaN])

\* one iteration of the while loop: lines 399-404
CurrentElecStep ==
    /\ pc = "A_loop"
    /\ LoopCondA
    /\ ~RLt(i, R(0))
    /\ LET bool == MaskA(i)
       IN  /\ elec_pop' = PopOf(bool)
           /\ gdf' = [k \in 1..Len(gdf) |->
                        IF bool[k] THEN [gdf[k] EXCEPT !.Current_elec = 1] ELSE gdf[k]]
    /\ i' = RSub(i, Step)
    /\ UNCHANGED <<pc, specs, combined_weight, self_i, total_pop, factor, uvars, cvars, ovars>>

\* The loop goes on with a threshold below 0.  Every score is in [0, 1] or is NaN, so
\* from here on bool and elec_pop are the same in every iteration and the test
\* never fails: the loop of line 399 runs forever (the code has no iteration cap).
CurrentElecSpin ==
    /\ pc = "A_loop"
    /\ LoopCondA
    /\ RLt(i, R(0))
    /\ pc' = "A_spin"
    /\ UNCHANGED <<gdf, specs, evars, uvars, cvars, ovars>>

\* the loop test fails: line 406
CurrentElecExit ==
    /\ pc = "A_loop"
    /\ ~LoopCondA
    /\ self_i' = i
    /\ pc' = "A_done"
    /\ UNCHANGED <<gdf, specs, combined_weight, i, elec_pop, total_pop, factor, uvars, cvars, ovars>>

(***************************************************************************)
(* Phase B: final_elec                                                     *)
(***************************************************************************)
\* the test of the while loop of final_elec
LoopCondB == RLt(Target, elec_pop)

\* self.gdf["Current_elec"].count(): the rows whose Current_elec is not NaN
CountCurrentElec == Len(gdf)

\* a decrement that divides the surplus by the number of electrified cells
Factor_PerElectrified(pop, total) ==
    RDiv(RSub(pop, RMul(total, specs.Elec_rate)),
         R(Cardinality({k \in 1..Len(gdf) : gdf[k].Current_elec = 1})))

\* the decrement of one sweep: lines 417-418
Factor(pop, total) == RDiv(RSub(pop, RMul(total, specs.Elec_rate)), R(CountCurrentElec))

\* final_elec up to its loop: lines 410-418
FinalElecStart ==
    /\ pc = "A_done"
    /\ gdf' = [k \in 1..Len(gdf) |-> [gdf[k] EXCEPT !.Elec_pop_calib = gdf[k].Calibrated_pop]]
    /\ i' = RAdd(self_i, Step)
    /\ LET total == SumSeq(Col("Calibrated_pop"))
           pop == PopOf([k \in 1..Len(gdf) |-> gdf[k].Current_elec = 1])
       IN  /\ total_pop' = total
           /\ elec_pop' = pop
           /\ factor' = Factor(pop, total)
    /\ pc' = "B_loop"
    /\ UNCHANGED <<specs, combined_weight, self_i, uvars, cvars, ovars>>

\* new_bool = (self.i <= self.combined_weight) & (self.combined_weight <= i)
Band(k) == RLe(self_i, combined_weight[k]) /\ RLe(combined_weight[k], i)

\* the decrement without the clamp of line 426
Decrement_NoClamp(row, inBand) ==
    IF inBand THEN RSub(row.Elec_pop_calib, factor) ELSE row.Elec_pop_calib

\* lines 425-426: subtract the decrement in the band, then clamp at zero
Decrement(row, inBand) ==
    LET v == IF inBand THEN RSub(row.Elec_pop_calib, factor) ELSE row.Elec_pop_calib
    IN  IF RLt(v, R(0)) THEN R(0) ELSE v

\* a sweep that leaves the electrified flag alone
Deactivate_Never(row) == row

\* line 427: a row whose electrified population is zero is no longer electrified
Deactivate(row) ==
    IF REq(row.Elec_pop_calib, R(0)) THEN [row EXCEPT !.Current_elec = 0] ELSE row

\* the table after one sweep: lines 423-427
SweptTable ==
    [k \in 1..Len(gdf) |->
        Deactivate([gdf[k] EXCEPT !.Elec_pop_calib = Decrement(gdf[k], Band(k))])]

\* elec_pop after one sweep: lines 428-430
SweptElecPop ==
    SumSeq([k \in 1..Len(gdf) |->
              IF SweptTable[k].Current_elec = 1 THEN SweptTable[k].Elec_pop_calib ELSE NaN])

\* a sweep that never moves the upper bound of the band
SweptI_Stay == i

\* i after one sweep: lines 432-434
SweptI ==
    IF \A k \in 1..Len(gdf) : ~(SweptTable[k].Current_elec = 1 /\ Band(k))
    THEN RAdd(i, Step)
    ELSE i

\* one iteration of the while loop: lines 421-434
FinalElecStep ==
    /\ pc = "B_loop"
    /\ LoopCondB
    /\ gdf' = SweptTable
    /\ elec_pop' = SweptElecPop
    /\ i' = SweptI
    /\ UNCHANGED <<pc, specs, combined_weight, self_i, total_pop, factor, uvars, cvars, ovars>>

\* line 436 left out
ZeroUnelectrified_Skip(row) == row

\* line 436: a row that is not electrified has no electrified population
ZeroUnelectrified(row) ==
    IF row.Current_elec = 0 THEN [row EXCEPT !.Elec_pop_calib = R(0)] ELSE row

\* the loop test fails: line 436
FinalElecExit ==
    /\ pc = "B_loop"
    /\ ~LoopCondB
    /\ gdf' = [k \in 1..Len(gdf) |-> ZeroUnelectrified(gdf[k])]
    /\ pc' = "B_done"
    /\ UNCHANGED <<specs, evars, uvars, cvars, ovars>>

(***************************************************************************)
(* Urban classes and households                                            *)
(***************************************************************************)
\* The IsUrban column as calibrate_urban_manual leaves it (the factor search that
\* chooses the classes is modelled on its own, see UrbanSpec).
UrbanClasses ==
    /\ pc = "B_done"
    /\ \E u \in UrbanColumns :
          gdf' = [k \in 1..Len(gdf) |-> [gdf[k] EXCEPT !.IsUrban = u[k]]]
    /\ pc' = "urban_done"
    /\ UNCHANGED <<specs, evars, uvars, cvars, ovars>>

\* number_of_households for one row: lines 551-555
HouseholdsOf(row) ==
    IF row.IsUrban < 20 THEN RDiv(row.Calibrated_pop, specs.Rural_HHsize)
    ELSE IF row.IsUrban > 20 THEN RDiv(row.Calibrated_pop, specs.Urban_HHsize)
    ELSE row.Households

NumberOfHouseholds ==
    /\ pc = "urban_done"
    /\ gdf' = [k \in 1..Len(gdf) |-> [gdf[k] EXCEPT !.Households = HouseholdsOf(gdf[k])]]
    /\ pc' = "hh_done"
    /\ UNCHANGED <<specs, evars, uvars, cvars, ovars>>

(***************************************************************************)
(* The technology models write one net_benefit_<tech> column each.         *)
(***************************************************************************)
NetBenefitColumns ==
    /\ pc = "hh_done"
    /\ \E a \in NBProfiles, b \in NBProfiles :
          gdf' = [k \in 1..Len(gdf) |->
                    [gdf[k] EXCEPT !.net_benefit =
                        LET p == IF k = 1 THEN a ELSE b
                        IN  [t \in 1..Len(Techs) |-> R(p[t])]]]
    /\ pc' = "alloc"
    /\ UNCHANGED <<specs, evars, uvars, cvars, ovars>>

(***************************************************************************)
(* maximum_net_benefit                                                     *)
(***************************************************************************)
\* DataFrame.max(axis=1) over the columns cols (positions in Techs)
RowMax(nb, cols) == MaxSeq([j \in 1..Len(cols) |-> nb[cols[j]]])

\* an argmax that keeps the last column holding the maximum
RECURSIVE IdxMaxLastFrom(_, _, _)
IdxMaxLastFrom(nb, cols, j) ==
    IF REq(nb[cols[j]], RowMax(nb, cols)) THEN cols[j] ELSE IdxMaxLastFrom(nb, cols, j - 1)

IdxMax_Last(nb, cols) == IdxMaxLastFrom(nb, cols, Len(cols))

\* DataFrame.idxmax(axis=1): the first column, in column order, that holds the maximum
RECURSIVE IdxMaxFrom(_, _, _)
IdxMaxFrom(nb, cols, j) ==
    IF REq(nb[cols[j]], RowMax(nb, cols)) THEN cols[j] ELSE IdxMaxFrom(nb, cols, j + 1)

IdxMax(nb, cols) == IdxMaxFrom(nb, cols, 1)

\* net_benefit_cols: line 571
NetBenefitCols == [t \in 1..Len(Techs) |-> t]

\* second_benefit_cols without the removal of the grid column
SecondBenefitCols_All == [t \in 1..Len(Techs) |-> t]

\* second_benefit_cols: lines 584-585
SecondBenefitCols == SelectIdx([t \in 1..Len(Techs) |-> Techs[t] # "Electricity"], 1)

\* lines 572-575
Choose(row) ==
    [row EXCEPT !.max_benefit_tech = Techs[IdxMax(row.net_benefit, NetBenefitCols)],
                !.maximum_net_benefit = RowMax(row.net_benefit, NetBenefitCols)]

\* current_elect with the comparison of the populations turned around
CurrentElect_Reversed(row) ==
    /\ row.Current_elec = 1
    /\ RLt(row.Calibrated_pop, row.Elec_pop_calib)
    /\ row.max_benefit_tech = "Electricity"

\* current_elect without the test of Current_elec
CurrentElect_NoFlag(row) ==
    /\ RLt(row.Elec_pop_calib, row.Calibrated_pop)
    /\ row.max_benefit_tech = "Electricity"

\* current_elect: lines 577-578
CurrentElect(row) ==
    /\ row.Current_elec = 1
    /\ RLt(row.Elec_pop_calib, row.Calibrated_pop)
    /\ row.max_benefit_tech = "Electricity"

\* elect_fraction: lines 580-581
ElectFraction(row) == RDiv(row.Elec_pop_calib, row.Calibrated_pop)

\* the row that stays in place: lines 582, 598-600
GridRow(row) ==
    LET f == ElectFraction(row)
    IN  [row EXCEPT !.maximum_net_benefit = RMul(@, f),
                    !.Calibrated_pop = RMul(@, f),
                    !.Elec_pop_calib = RMul(@, f),
                    !.Households = RMul(@, f)]

\* a row of dff whose population is scaled by the served fraction
SecondRow_ScalesByF(row) ==
    LET f == RDiv(row.Elec_pop_calib, row.Calibrated_pop)
        g == RSub(R(1), f)
    IN  [row EXCEPT !.max_benefit_tech =
                        Techs[IdxMax(row.net_benefit,
                                     SelectIdx([t \in 1..Len(Techs) |-> Techs[t] # "Electricity"], 1))],
                    !.maximum_net_benefit = RMul(@, g),
                    !.Calibrated_pop = RMul(@, f),
                    !.Elec_pop_calib = RMul(@, g),
                    !.Households = RMul(@, g)]

\* a row of dff whose net-benefit columns are scaled by the unserved fraction too
SecondRow_ScalesColumns(row) ==
    LET f == RDiv(row.Elec_pop_calib, row.Calibrated_pop)
        g == RSub(R(1), f)
        cols == SelectIdx([t \in 1..Len(Techs) |-> Techs[t] # "Electricity"], 1)
    IN  [row EXCEPT !.max_benefit_tech = Techs[IdxMax(row.net_benefit, cols)],
                    !.maximum_net_benefit = RMul(RowMax(row.net_benefit, cols), g),
                    !.net_benefit = [t \in 1..Len(Techs) |-> RMul(row.net_benefit[t], g)],
                    !.Calibrated_pop = RMul(@, g),
                    !.Elec_pop_calib = RMul(@, g),
                    !.Households = RMul(@, g)]

\* the row of dff: lines 586-596
SecondRow(row) ==
    LET f == ElectFraction(row)
        g == RSub(R(1), f)
    IN  [row EXCEPT !.max_benefit_tech = Techs[IdxMax(row.net_benefit, SecondBenefitCols)],
                    !.maximum_net_benefit = RMul(RowMax(row.net_benefit, SecondBenefitCols), g),
                    !.Calibrated_pop = RMul(@, g),
                    !.Elec_pop_calib = RMul(@, g),
                    !.Households = RMul(@, g)]

\* the table after maximum_net_benefit: lines 571-601
Allocated(table) ==
    LET chosen == [k \in 1..Len(table) |-> Choose(table[k])]
        current_elect == [k \in 1..Len(table) |-> CurrentElect(chosen[k])]
        sel == SelectIdx(current_elect, 1)
    IN  [k \in 1..Len(table) |-> IF current_elect[k] THEN GridRow(chosen[k]) ELSE chosen[k]]
        \o [j \in 1..Len(sel) |-> SecondRow(chosen[sel[j]])]

MaximumNetBenefit ==
    /\ pc = "alloc"
    /\ gdf' = Allocated(gdf)
    /\ pc' = "done"
    /\ UNCHANGED <<specs, evars, uvars, cvars, ovars>>

Next ==
    \/ CurrentElecStart
    \/ CurrentElecStep
    \/ CurrentElecSpin
    \/ CurrentElecExit
    \/ FinalElecStart
    \/ FinalElecStep
    \/ FinalElecExit
    \/ UrbanClasses
    \/ NumberOfHouseholds
    \/ NetBenefitColumns
    \/ MaximumNetBenefit

Spec == Init /\ [][Next]_vars

\* The session is one thread: inside current_elec and final_elec it runs its next
\* statement whenever there is one.  ENABLED <<FinalElecStep>>_vars is written as the
\* state predicate it amounts to.
SweepEnabled ==
    /\ pc = "B_loop"
    /\ LoopCondB
    /\ <<gdf, elec_pop, i>> # <<SweptTable, SweptElecPop, SweptI>>

FairSpec ==
    /\ Spec
    /\ WF_vars(CurrentElecStep)
    /\ WF_vars(CurrentElecSpin)
    /\ WF_vars(CurrentElecExit)
    /\ ([]<>(~SweepEnabled) \/ []<><<FinalElecStep>>_vars)
    /\ WF_vars(FinalElecExit)


(***************************************************************************)
(* Urban factor search: calibrate_urban_manual (onsstove.py) and           *)
(* calibrate_urban (raster.py).                                            *)
(*                                                                         *)
(* The factor is multiplied by 1.1 or 0.9 up to 501 times; its exact value *)
(* 11^a * 9^b / 10^(a+b) is kept as a numerator of base 10000 digits and a *)
(* decimal exponent.                                                       *)
(***************************************************************************)
\* populations of a cell or cluster
UrbanPopVals == {4000, 60000, 200000}
\* area of a cell or cluster, km2
AreaVals == {1, 100}
\* the target urban share
UrbanStartVals == {Frac(0, 1), Frac(1, 2), Frac(1, 1)}
\* specs["Population_start_year"]
PopStartVals == {260000}
\* the cap on i: "if i > 500: break"
MaxUrbanIter == 500

\* the base 10000 digits of a natural number, least significant first
RECURSIVE BigOfInt(_)
BigOfInt(x) == IF x = 0 THEN << >> ELSE <<x % 10000>> \o BigOfInt(x \div 10000)

\* digits times a small natural number
RECURSIVE BigMulCarry(_, _, _)
BigMulCarry(digits, k, carry) ==
    IF digits = << >> THEN BigOfInt(carry)
    ELSE LET v == Head(digits) * k + carry
         IN  <<v % 10000>> \o BigMulCarry(Tail(digits), k, v \div 10000)

BigMul(digits, k) == IF k = 0 \/ digits = << >> THEN << >> ELSE BigMulCarry(digits, k, 0)

RECURSIVE Pow10(_)
Pow10(e) == IF e = 0 THEN 1 ELSE 10 * Pow10(e - 1)

\* digits times 10^e
BigShift(digits, e) ==
    IF digits = << >> THEN << >>
    ELSE [j \in 1..(e \div 4) |-> 0] \o BigMul(digits, Pow10(e % 4))

BigLess(a, b) ==
    IF Len(a) # Len(b) THEN Len(a) < Len(b)
    ELSE \E j \in 1..Len(a) : a[j] < b[j] /\ \A m \in (j + 1)..Len(a) : a[m] = b[m]

\* factor *= 1.1 and factor *= 0.9
FactorTimes(f, tenths) == [num |-> BigMul(f.num, tenths), exp |-> f.exp + 1]

\* digits plus a small natural number
RECURSIVE BigAdd(_, _)
BigAdd(digits, k) ==
    IF k = 0 THEN digits
    ELSE IF digits = << >> THEN BigOfInt(k)
    ELSE LET v == Head(digits) + k
         IN  <<v % 10000>> \o BigAdd(Tail(digits), v \div 10000)

\* a * 10000^m < b * 10000^q, for digit sequences without leading zeros
ShiftedLess(a, m, b, q) ==
    IF a = << >> \/ b = << >> THEN b # << >> /\ a = << >>
    ELSE IF Len(a) + m # Len(b) + q THEN Len(a) + m < Len(b) + q
    ELSE LET c == IF m < q THEN m ELSE q
         IN  BigLess([j \in 1..(m - c) |-> 0] \o a, [j \in 1..(q - c) |-> 0] \o b)

\* k * digits < p * 10^e.  The three leading digits of a long number bound the
\* product from both sides; the full product is formed only when they do not decide.
ProductLess(digits, k, p, e) ==
    LET n == Len(digits)
        rhs == BigMul(BigOfInt(p), Pow10(e % 4))
        q == e \div 4
    IN  IF n <= 4 THEN ShiftedLess(BigMul(digits, k), 0, rhs, q)
        ELSE LET lo == BigMul(SubSeq(digits, n - 2, n), k)
                 hi == BigAdd(lo, k)
             IN  IF ~ShiftedLess(rhs, q, hi, n - 3) THEN TRUE
                 ELSE IF ~ShiftedLess(lo, n - 3, rhs, q) THEN FALSE
                 ELSE ShiftedLess(BigMul(digits, k), 0, rhs, q)

\* value / area > limit * f, for a rational value >= 0 and a whole area > 0
\* (area 1 gives value > limit * f)
Exceeds(value, area, limit, f) ==
    /\ ~IsNaN(value)
    /\ ProductLess(f.num, limit * value.d * area, value.n, f.exp)

\* the peri-urban density limit: 350 in calibrate_urban_manual, 300 in calibrate_urban
Density(v) == IF v = "manual" THEN 350 ELSE 300

\* the class of a cell: lines 530-534 (manual), 271-277 (raster)
UrbanClass(pop, area, f, v) ==
    IF Exceeds(pop, 1, 50000, f) /\ Exceeds(pop, area, 1500, f) THEN 2
    ELSE IF Exceeds(pop, 1, 5000, f) /\ Exceeds(pop, area, Density(v), f) THEN 1
    ELSE 0

RAbs(x) == IF RLt(x, R(0)) THEN RSub(R(0), x) ELSE x

\* the test of the while loop: abs(urban_modelled - urban_current) > 0.01
LoopCondUrban == RLt(Frac(1, 100), RAbs(RSub(urban_modelled, urban_current)))

UrbanInit ==
    /\ pc = "urban_start"
    /\ variant \in {"manual", "raster"}
    /\ \E pop \in [Cells -> UrbanPopVals] :
          IF variant = "manual"
          THEN /\ gdf = [c \in Cells |-> InitRow(c, pop[c], 0, 0)]
               /\ clusters = << >>
               /\ cell_area \in AreaVals
               /\ \E u \in UrbanStartVals, p \in PopStartVals, h \in HHsizeVals :
                     specs = [Urban_start |-> u, Population_start_year |-> R(p),
                              Rural_HHsize |-> R(h[1]), Urban_HHsize |-> R(h[2])]
          ELSE /\ gdf = << >>
               /\ \E area \in [Cells -> AreaVals] :
                     clusters = [c \in Cells |->
                                   [Population |-> R(pop[c]), Area |-> area[c], IsUrban |-> 0]]
               /\ cell_area = 0
               /\ specs = [Urban_start |-> NaN, Population_start_year |-> NaN,
                           Rural_HHsize |-> NaN, Urban_HHsize |-> NaN]
    /\ combined_weight = << >>
    /\ self_i = NaN
    /\ i = NaN
    /\ elec_pop = NaN
    /\ total_pop = NaN
    /\ factor = NaN
    /\ urban_current = NaN
    /\ pop_tot = NaN
    /\ urban_modelled = NaN
    /\ urban_factor = [num |-> <<1>>, exp |-> 0]
    /\ urban_i = 0
    /\ layers = << >>
    /\ ret = << >>
    /\ columns = {}
    /\ attributes = {}
    /\ completed = {}
    /\ called = "none"
    /\ raised = "none"
    /\ wrote = {}

\* the search up to its loop: onsstove.py 522-527, raster.py 266-269
UrbanStart ==
    /\ pc = "urban_start"
    /\ urban_modelled' = R(2)
    /\ urban_factor' = [num |-> <<1>>, exp |-> 0]
    /\ IF variant = "manual"
       THEN /\ pop_tot' = specs.Population_start_year
            /\ urban_current' = specs.Urban_start
       ELSE /\ pop_tot' = SumSeq([k \in 1..Len(clusters) |-> clusters[k].Population])
            /\ \E u \in UrbanStartVals : urban_current' = u
    /\ urban_i' = 0
    /\ pc' = "urban_loop"
    /\ UNCHANGED <<gdf, specs, evars, variant, clusters, cell_area, cvars, ovars>>

\* one iteration of the loop: onsstove.py 528-546, raster.py 270-288
UrbanStep ==
    /\ pc = "urban_loop"
    /\ LoopCondUrban
    /\ LET g == [k \in 1..Len(gdf) |->
                   [gdf[k] EXCEPT !.IsUrban =
                       UrbanClass(gdf[k].Calibrated_pop, cell_area, urban_factor, variant)]]
           c == [k \in 1..Len(clusters) |->
                   [clusters[k] EXCEPT !.IsUrban =
                       UrbanClass(clusters[k].Population, clusters[k].Area, urban_factor,
                                  variant)]]
           pop_urb == IF variant = "manual"
                      THEN SumSeq([k \in 1..Len(g) |->
                                     IF g[k].IsUrban > 1 THEN g[k].Calibrated_pop ELSE NaN])
                      ELSE SumSeq([k \in 1..Len(c) |->
                                     IF c[k].IsUrban > 1 THEN c[k].Population ELSE NaN])
           modelled == RDiv(pop_urb, pop_tot)
       IN  /\ gdf' = g
           /\ clusters' = c
           /\ urban_modelled' = modelled
           /\ urban_factor' = IF RLt(urban_current, modelled)
                              THEN FactorTimes(urban_factor, 11)
                              ELSE FactorTimes(urban_factor, 9)
    /\ urban_i' = urban_i + 1
    /\ pc' = IF urban_i' > MaxUrbanIter THEN "urban_done" ELSE "urban_loop"
    /\ UNCHANGED <<specs, evars, variant, cell_area, urban_current, pop_tot, cvars, ovars>>

\* the loop test fails
UrbanExit ==
    /\ pc = "urban_loop"
    /\ ~LoopCondUrban
    /\ pc' = "urban_done"
    /\ UNCHANGED <<gdf, specs, evars, uvars, cvars, ovars>>

UrbanNext ==
    \/ UrbanStart
    \/ UrbanStep
    \/ UrbanExit
    \/ (variant = "manual" /\ NumberOfHouseholds)

UrbanSpec == UrbanInit /\ [][UrbanNext]_vars

(***************************************************************************)
(* The functions of the population calibration and of the score            *)
(* construction, each called on its own on inputs of its domain:           *)
(* calibrate_current_pop, normalized and DataProcessor.index.              *)
(***************************************************************************)
\* number of layers handed to DataProcessor.index
NLayers == 2
\* the cells of the table of a single call
CalcCells == 1..(NCells + 1)
\* Pop of a cell: the people counted by the population raster
RawPopVals == {0, 1, 2, 5}
\* specs["Population_start_year"] of calibrate_current_pop
CalibTargetVals == {3, 10}
\* the values of a column handed to normalized
NormVals == {-1, 0, 3}
\* the values of a normalized layer
LayerVals == {Frac(0, 1), Frac(1, 2)}
\* layer.weight
LayerWeightVals == {0, 1, 2}

\* the built-in sum of Python: a NaN term makes the sum NaN
RECURSIVE PySum(_)
PySum(s) == IF s = << >> THEN R(0) ELSE RAdd(Head(s), PySum(Tail(s)))

\* a calibration factor with the quotient turned around
CalibrationFactor_Inverted(total_gis_pop) == RDiv(total_gis_pop, specs.Population_start_year)

\* calibration_factor: line 442.  A positive target over a zero sum is inf in the
\* program and the products 0 * inf are NaN: the column comes out NaN as with 0/0.
CalibrationFactor(total_gis_pop) == RDiv(specs.Population_start_year, total_gis_pop)

\* calibrate_current_pop: lines 441-444
CalibrateCurrentPop ==
    /\ pc = "pop_start"
    /\ LET total_gis_pop == SumSeq(Col("Pop"))
           calibration_factor == CalibrationFactor(total_gis_pop)
       IN  gdf' = [k \in 1..Len(gdf) |->
                     [gdf[k] EXCEPT !.Calibrated_pop = RMul(gdf[k].Pop, calibration_factor)]]
    /\ pc' = "pop_done"
    /\ UNCHANGED <<specs, evars, uvars, cvars, ovars>>

\* a call of normalized on the column "column" of gdf: lines 362-369
CallNormalized ==
    /\ pc = "norm_start"
    /\ \E inverse \in BOOLEAN :
          ret' = [outcome |-> "returned", inverse |-> inverse,
                  value |-> normalized(Col("column"), inverse)]
    /\ pc' = "norm_done"
    /\ UNCHANGED <<gdf, specs, evars, uvars, layers, ovars>>

\* DataProcessor.index: lines 210-217
index(ls) ==
    LET weights == [j \in 1..Len(ls) |-> R(ls[j].weight)]
        rasters == [j \in 1..Len(ls) |->
                      [k \in 1..Len(ls[j].layer) |-> RMul(R(ls[j].weight), ls[j].layer[k])]]
    IN  [k \in 1..Len(ls[1].layer) |->
            RDiv(PySum([j \in 1..Len(ls) |-> rasters[j][k]]), PySum(weights))]

\* a call of DataProcessor.index(layers)
CallIndex ==
    /\ pc = "index_start"
    /\ ret' = [outcome |-> "returned", value |-> index(layers)]
    /\ pc' = "index_done"
    /\ UNCHANGED <<gdf, specs, evars, uvars, layers, ovars>>

CalcInit ==
    /\ pc \in {"pop_start", "norm_start", "index_start"}
    /\ IF pc = "pop_start"
       THEN /\ \E pop \in [CalcCells -> RawPopVals] :
                  gdf = [c \in CalcCells |-> [idx |-> c, Pop |-> R(pop[c]), Calibrated_pop |-> NaN]]
            /\ \E p \in CalibTargetVals : specs = [Population_start_year |-> R(p)]
            /\ layers = << >>
       ELSE IF pc = "norm_start"
       THEN /\ \E v \in [CalcCells -> NormVals] :
                  gdf = [c \in CalcCells |-> [idx |-> c, column |-> R(v[c])]]
            /\ specs = << >>
            /\ layers = << >>
       ELSE /\ gdf = << >>
            /\ specs = << >>
            /\ \E n \in 1..NLayers :
                  \E w \in [1..n -> LayerWeightVals], v \in [1..n -> [Cells -> LayerVals]] :
                     layers = [j \in 1..n |-> [weight |-> w[j], layer |-> v[j]]]
    /\ ret = << >>
    /\ combined_weight = << >>
    /\ self_i = NaN
    /\ i = NaN
    /\ elec_pop = NaN
    /\ total_pop = NaN
    /\ factor = NaN
    /\ variant = "none"
    /\ clusters = << >>
    /\ cell_area = 0
    /\ urban_current = NaN
    /\ pop_tot = NaN
    /\ urban_modelled = NaN
    /\ urban_factor = [num |-> <<1>>, exp |-> 0]
    /\ urban_i = 0
    /\ columns = {}
    /\ attributes = {}
    /\ completed = {}
    /\ called = "none"
    /\ raised = "none"
    /\ wrote = {}

CalcNext ==
    \/ CalibrateCurrentPop
    \/ CallNormalized
    \/ CallIndex

CalcSpec == CalcInit /\ [][CalcNext]_vars

(***************************************************************************)
(* A session whose stages are called in any order.  Only the columns of    *)
(* self.gdf and the attributes of the session are kept: each stage is the  *)
(* sequence of column and attribute accesses of its code, and a call ends  *)
(* at the first access that raises (a column that is not in the table, an  *)
(* attribute that holds no number).  The loops are taken to terminate.     *)
(***************************************************************************)
\* the columns the table can start with besides Pop, Night_lights and the net benefits
DistanceColumns == {"Transformers_dist", "MV_lines_dist", "HV_lines_dist"}

\* the stages in the order of the pipeline
Stages == <<"calibrate_current_pop", "current_elec", "final_elec",
            "calibrate_urban_manual", "number_of_households", "maximum_net_benefit">>

Rd(c) == [op |-> "read", name |-> c]

Wr(c) == [op |-> "write", name |-> c]

Get(a) == [op |-> "get", name |-> a]

Set(a) == [op |-> "set", name |-> a]

\* the accesses ops, in order, on the session st, up to the first one that raises:
\* self.gdf[c] of a missing column is a KeyError, {} + 0.0001 a TypeError, a missing
\* attribute an AttributeError
RECURSIVE Exec(_, _)
Exec(ops, st) ==
    IF ops = << >> \/ st.raised # "none" THEN st
    ELSE LET o == Head(ops)
         IN  Exec(Tail(ops),
                  IF o.op = "read"
                  THEN IF o.name \in st.columns THEN st ELSE [st EXCEPT !.raised = "KeyError"]
                  ELSE IF o.op = "write"
                  THEN [st EXCEPT !.columns = @ \cup {o.name}, !.wrote = @ \cup {o.name}]
                  ELSE IF o.op = "get"
                  THEN IF o.name \in st.attributes THEN st
                       ELSE [st EXCEPT !.raised =
                                IF o.name = "i" THEN "TypeError" ELSE "AttributeError"]
                  ELSE [st EXCEPT !.attributes = @ \cup {o.name}])

\* a call of stage s with accesses ops
Call(s, ops) ==
    LET st == Exec(ops, [columns |-> columns, attributes |-> attributes,
                         raised |-> "none", wrote |-> {}])
    IN  /\ columns' = st.columns
        /\ attributes' = st.attributes
        /\ raised' = st.raised
        /\ wrote' = st.wrote
        /\ called' = s
        /\ completed' = IF st.raised = "none" THEN completed \cup {s} ELSE completed
        /\ UNCHANGED <<pc, gdf, specs, evars, uvars, cvars>>

\* calibrate_current_pop: lines 441-444
CallCalibrateCurrentPop ==
    /\ pc = "session"
    /\ Call("calibrate_current_pop", <<Rd("Pop"), Rd("Pop"), Wr("Calibrated_pop")>>)

\* the distance column normalize_for_electricity copies: lines 373-378
DistanceColumn ==
    IF "Transformers_dist" \in columns THEN "Transformers_dist"
    ELSE IF "MV_lines_dist" \in columns THEN "MV_lines_dist"
    ELSE "HV_lines_dist"

\* current_elec with normalize_for_electricity: lines 373-406
CallCurrentElec ==
    /\ pc = "session"
    /\ Call("current_elec",
            <<Rd(DistanceColumn), Wr("Elec_dist"),
              Rd("Elec_dist"), Rd("Night_lights"), Rd("Calibrated_pop"), Set("combined_weight"),
              Wr("Current_elec"), Rd("Calibrated_pop"),
              Get("combined_weight"), Rd("Calibrated_pop"), Wr("Current_elec"),
              Set("i")>>)

\* final_elec: lines 410-436; sweeps tells whether the loop body runs
CallFinalElec ==
    /\ pc = "session"
    /\ \E sweeps \in BOOLEAN :
          Call("final_elec",
               <<Rd("Calibrated_pop"), Wr("Elec_pop_calib"),
                 Get("i"),
                 Rd("Calibrated_pop"), Rd("Current_elec"), Rd("Calibrated_pop"),
                 Rd("Current_elec")>>
               \o (IF sweeps
                   THEN <<Get("i"), Get("combined_weight"), Rd("Elec_pop_calib"),
                          Wr("Elec_pop_calib"), Rd("Elec_pop_calib"), Wr("Current_elec"),
                          Rd("Current_elec"), Rd("Elec_pop_calib")>>
                   ELSE << >>)
               \o <<Rd("Current_elec"), Wr("Elec_pop_calib")>>)

\* calibrate_urban_manual: lines 522-546, the loop body runs at least once
CallCalibrateUrbanManual ==
    /\ pc = "session"
    /\ Call("calibrate_urban_manual",
            <<Wr("IsUrban"),
              Rd("Calibrated_pop"), Rd("Calibrated_pop"), Wr("IsUrban"),
              Rd("Calibrated_pop"), Rd("Calibrated_pop"), Wr("IsUrban"),
              Rd("IsUrban"), Rd("Calibrated_pop")>>)

\* number_of_households: lines 551-555
CallNumberOfHouseholds ==
    /\ pc = "session"
    /\ Call("number_of_households",
            <<Rd("IsUrban"), Rd("Calibrated_pop"), Rd("IsUrban"), Wr("Households"),
              Rd("IsUrban"), Rd("Calibrated_pop"), Rd("IsUrban"), Wr("Households")>>)

\* maximum_net_benefit: lines 571-601; split tells whether current_elect selects a row
CallMaximumNetBenefit ==
    /\ pc = "session"
    /\ \E split \in BOOLEAN :
          Call("maximum_net_benefit",
               <<Rd("net_benefit_LPG"), Rd("net_benefit_Electricity"), Wr("max_benefit_tech"),
                 Rd("max_benefit_tech"), Wr("max_benefit_tech"),
                 Rd("net_benefit_LPG"), Rd("net_benefit_Electricity"), Wr("maximum_net_benefit"),
                 Rd("Current_elec"), Rd("Elec_pop_calib"), Rd("Calibrated_pop"),
                 Rd("max_benefit_tech")>>
               \o (IF split
                   THEN <<Rd("Elec_pop_calib"), Rd("Calibrated_pop"),
                          Rd("maximum_net_benefit"), Wr("maximum_net_benefit"),
                          Rd("net_benefit_LPG"), Rd("net_benefit_LPG"),
                          Rd("Calibrated_pop"), Rd("Elec_pop_calib"), Rd("Households"),
                          Rd("Calibrated_pop"), Wr("Calibrated_pop"),
                          Rd("Elec_pop_calib"), Wr("Elec_pop_calib"),
                          Rd("Households"), Wr("Households")>>
                   ELSE << >>))

\* the session after __init__ and the loading of the table: lines 277-285
OrderInit ==
    /\ pc = "session"
    /\ \E d \in SUBSET DistanceColumns :
          columns = d \cup {"Pop", "Night_lights", "net_benefit_LPG", "net_benefit_Electricity"}
    /\ attributes = {}
    /\ completed = {}
    /\ called = "none"
    /\ raised = "none"
    /\ wrote = {}
    /\ gdf = << >>
    /\ specs = << >>
    /\ layers = << >>
    /\ ret = << >>
    /\ combined_weight = << >>
    /\ self_i = NaN
    /\ i = NaN
    /\ elec_pop = NaN
    /\ total_pop = NaN
    /\ factor = NaN
    /\ variant = "none"
    /\ clusters = << >>
    /\ cell_area = 0
    /\ urban_current = NaN
    /\ pop_tot = NaN
    /\ urban_modelled = NaN
    /\ urban_factor = [num |-> <<1>>, exp |-> 0]
    /\ urban_i = 0

OrderNext ==
    \/ CallCalibrateCurrentPop
    \/ CallCurrentElec
    \/ CallFinalElec
    \/ CallCalibrateUrbanManual
    \/ CallNumberOfHouseholds
    \/ CallMaximumNetBenefit

OrderSpec == OrderInit /\ [][OrderNext]_vars

(***************************************************************************)
(* The electrification phases in rounded arithmetic.                       *)
(*                                                                         *)
(* A double holds 53 significant bits, and every operation on doubles      *)
(* gives the exact result rounded to the nearest double, a tie going to    *)
(* the even mantissa.  DoubleSpec runs current_elec and final_elec with    *)
(* this rounding after every operation, on MantissaBits significant bits   *)
(* instead of 53 (the exponent is not bounded).  It uses the variables of  *)
(* Spec; the other variables keep their initial values.                    *)
(***************************************************************************)
\* significant bits of a number (53 in the program)
MantissaBits == 4

\* the value with MantissaBits significant bits nearest to n/d > 0, ties to even
RECURSIVE RoundPos(_, _)
RoundPos(n, d) ==
    IF n >= d * 2^MantissaBits
    THEN LET r == RoundPos(n, 2 * d) IN Frac(2 * r.n, r.d)
    ELSE IF n < d * 2^(MantissaBits - 1)
    THEN LET r == RoundPos(2 * n, d) IN Frac(r.n, 2 * r.d)
    ELSE LET m == n \div d
             rest == n - m * d
         IN  IF 2 * rest > d \/ (2 * rest = d /\ m % 2 = 1) THEN R(m + 1) ELSE R(m)

\* the double nearest to a number
Round(x) ==
    IF IsNaN(x) \/ x.n = 0 THEN x
    ELSE IF x.n < 0 THEN LET r == RoundPos(-x.n, x.d) IN Frac(-r.n, r.d)
    ELSE RoundPos(x.n, x.d)

\* +, -, * and / on doubles
DAdd(x, y) == Round(RAdd(x, y))

DSub(x, y) == Round(RSub(x, y))

DMul(x, y) == Round(RMul(x, y))

DDiv(x, y) == Round(RDiv(x, y))

\* Series.sum() on doubles: NaN entries are skipped, the rest is added from the first
\* row on
RECURSIVE DSumFrom(_, _)
DSumFrom(acc, s) ==
    IF s = << >> THEN acc
    ELSE DSumFrom(IF IsNaN(Head(s)) THEN acc ELSE DAdd(acc, Head(s)), Tail(s))

DSum(s) == DSumFrom(R(0), s)

\* Calibrated_pop of a cell: whole numbers that need at most MantissaBits bits
DoublePopVals == 0..(2^(MantissaBits - 1))
\* specs["Elec_rate"]: multiples of 1/8
DoubleRateVals == {Frac(k, 8) : k \in 0..7}

\* Tables in which night lights grow and the distance to the grid falls with the
\* population of the cell, cells of different populations, the three weights 1.
DoubleInit ==
    /\ pc = "start"
    /\ \E pop \in [Cells -> DoublePopVals] :
          /\ Cardinality({pop[c] : c \in Cells}) > 1
          /\ gdf = [c \in Cells |->
                      InitRow(c, pop[c], 2^(MantissaBits - 1) - pop[c], pop[c])]
    /\ \E r \in DoubleRateVals :
          specs = [Elec_rate |-> r, infra_weight |-> R(1), Min_Elec_Pop |-> R(1),
                   Min_Night_Lights |-> R(1),
                   Rural_HHsize |-> R(2), Urban_HHsize |-> R(1)]
    /\ combined_weight = << >>
    /\ self_i = NaN
    /\ i = NaN
    /\ elec_pop = NaN
    /\ total_pop = NaN
    /\ factor = NaN
    /\ variant = "none"
    /\ clusters = << >>
    /\ cell_area = 0
    /\ urban_current = NaN
    /\ pop_tot = NaN
    /\ urban_modelled = NaN
    /\ urban_factor = [num |-> <<1>>, exp |-> 0]
    /\ urban_i = 0
    /\ layers = << >>
    /\ ret = << >>
    /\ columns = {}
    /\ attributes = {}
    /\ completed = {}
    /\ called = "none"
    /\ raised = "none"
    /\ wrote = {}

\* OnSSTOVE.normalized on doubles
DoubleNormalized(column, inverse) ==
    LET mx == MaxSeq(column)
        mn == MinSeq(column)
    IN  [k \in 1..Len(column) |->
            IF inverse THEN DDiv(DSub(mx, column[k]), DSub(mx, mn))
            ELSE DDiv(DSub(column[k], mn), DSub(mx, mn))]

\* OnSSTOVE.normalize_for_electricity on doubles
DoubleCombinedWeight ==
    LET elec_dist == DoubleNormalized(Col("Elec_dist"), TRUE)
        ntl == DoubleNormalized(Col("Night_lights"), FALSE)
        pop == DoubleNormalized(Col("Calibrated_pop"), FALSE)
        wsum == DAdd(DAdd(specs.infra_weight, specs.Min_Elec_Pop), specs.Min_Night_Lights)
    IN  [k \in 1..Len(gdf) |->
            DDiv(DAdd(DAdd(DMul(elec_dist[k], specs.infra_weight),
                           DMul(pop[k], specs.Min_Elec_Pop)),
                      DMul(ntl[k], specs.Min_Night_Lights)),
                 wsum)]

\* the literal 0.0001 as a double
DoubleStep == Round(Step)

\* total_pop * elec_rate on doubles
DoubleTarget == DMul(total_pop, specs.Elec_rate)

\* current_elec up to its loop: lines 390-397
DoubleCurrentElecStart ==
    /\ pc = "start"
    /\ combined_weight' = DoubleCombinedWeight
    /\ gdf' = [k \in 1..Len(gdf) |-> [gdf[k] EXCEPT !.Current_elec = 0]]
    /\ i' = R(1)
    /\ elec_pop' = R(0)
    /\ total_pop' = DSum(Col("Calibrated_pop"))
    /\ pc' = "A_loop"
    /\ UNCHANGED <<specs, self_i, factor, uvars, cvars, ovars>>

\* the Calibrated_pop of the rows of a mask, summed on doubles
DoublePopOf(mask) ==
    DSum([k \in 1..Len(gdf) |-> IF mask[k] THEN gdf[k].Calibrated_pop ELSE NaN])

\* one iteration of the while loop of current_elec: lines 399-404
DoubleCurrentElecStep ==
    /\ pc = "A_loop"
    /\ RLe(elec_pop, DoubleTarget)
    /\ LET bool == MaskA(i)
       IN  /\ elec_pop' = DoublePopOf(bool)
           /\ gdf' = [k \in 1..Len(gdf) |->
                        IF bool[k] THEN [gdf[k] EXCEPT !.Current_elec = 1] ELSE gdf[k]]
    /\ i' = DSub(i, DoubleStep)
    /\ UNCHANGED <<pc, specs, combined_weight, self_i, total_pop, factor, uvars, cvars, ovars>>

\* the loop test of current_elec fails: line 406
DoubleCurrentElecExit ==
    /\ pc = "A_loop"
    /\ ~RLe(elec_pop, DoubleTarget)
    /\ self_i' = i
    /\ pc' = "A_done"
    /\ UNCHANGED <<gdf, specs, combined_weight, i, elec_pop, total_pop, factor, uvars, cvars, ovars>>

\* final_elec up to its loop: lines 410-418
DoubleFinalElecStart ==
    /\ pc = "A_done"
    /\ gdf' = [k \in 1..Len(gdf) |-> [gdf[k] EXCEPT !.Elec_pop_calib = gdf[k].Calibrated_pop]]
    /\ i' = DAdd(self_i, DoubleStep)
    /\ LET total == DSum(Col("Calibrated_pop"))
           pop == DoublePopOf([k \in 1..Len(gdf) |-> gdf[k].Current_elec = 1])
       IN  /\ total_pop' = total
           /\ elec_pop' = pop
           /\ factor' = DDiv(DSub(pop, DMul(total, specs.Elec_rate)), R(CountCurrentElec))
    /\ pc' = "B_loop"
    /\ UNCHANGED <<specs, combined_weight, self_i, uvars, cvars, ovars>>

\* the test of the while loop of final_elec on doubles
DoubleLoopCondB == RLt(DoubleTarget, elec_pop)

\* lines 425-426 on doubles: subtract the decrement in the band, then clamp at zero
DoubleDecrement(row, inBand) ==
    LET v == IF inBand THEN DSub(row.Elec_pop_calib, factor) ELSE row.Elec_pop_calib
    IN  IF RLt(v, R(0)) THEN R(0) ELSE v

\* the table after one sweep: lines 423-427
DoubleSweptTable ==
    [k \in 1..Len(gdf) |->
        Deactivate([gdf[k] EXCEPT !.Elec_pop_calib = DoubleDecrement(gdf[k], Band(k))])]

\* elec_pop after one sweep: lines 428-430
DoubleSweptElecPop ==
    DSum([k \in 1..Len(gdf) |->
            IF DoubleSweptTable[k].Current_elec = 1
            THEN DoubleSweptTable[k].Elec_pop_calib ELSE NaN])

\* i after one sweep: lines 432-434
DoubleSweptI ==
    IF \A k \in 1..Len(gdf) : ~(DoubleSweptTable[k].Current_elec = 1 /\ Band(k))
    THEN DAdd(i, DoubleStep)
    ELSE i

\* a sweep changes the table, elec_pop or i
DoubleSweepChanges == <<gdf, elec_pop, i>> # <<DoubleSweptTable, DoubleSweptElecPop, DoubleSweptI>>

\* one iteration of the while loop of final_elec: lines 421-434
DoubleFinalElecStep ==
    /\ pc = "B_loop"
    /\ DoubleLoopCondB
    /\ DoubleSweepChanges
    /\ gdf' = DoubleSweptTable
    /\ elec_pop' = DoubleSweptElecPop
    /\ i' = DoubleSweptI
    /\ UNCHANGED <<pc, specs, combined_weight, self_i, total_pop, factor, uvars, cvars, ovars>>

\* An iteration that changes neither the table nor elec_pop nor i while the loop test
\* holds: every later iteration is the same one, and the loop of line 421 runs forever.
DoubleFinalElecSpin ==
    /\ pc = "B_loop"
    /\ DoubleLoopCondB
    /\ ~DoubleSweepChanges
    /\ pc' = "B_spin"
    /\ UNCHANGED <<gdf, specs, evars, uvars, cvars, ovars>>

\* the loop test of final_elec fails: line 436
DoubleFinalElecExit ==
    /\ pc = "B_loop"
    /\ ~DoubleLoopCondB
    /\ gdf' = [k \in 1..Len(gdf) |-> ZeroUnelectrified(gdf[k])]
    /\ pc' = "B_done"
    /\ UNCHANGED <<specs, evars, uvars, cvars, ovars>>

DoubleNext ==
    \/ DoubleCurrentElecStart
    \/ DoubleCurrentElecStep
    \/ DoubleCurrentElecExit
    \/ DoubleFinalElecStart
    \/ DoubleFinalElecStep
    \/ DoubleFinalElecSpin
    \/ DoubleFinalElecExit

DoubleSpec == DoubleInit /\ [][DoubleNext]_vars


(***************************************************************************)
(* Vocabulary of the properties.                                           *)
(***************************************************************************)
\* the positions of the rows of a table that carry index label c
RowsOf(table, c) == {k \in 1..Len(table) : table[k].idx = c}

\* a step of maximum_net_benefit
AllocStep == pc = "alloc" /\ pc' = "done"

\* the cell of row k of gdf ends the step with two rows: itself at position k and
\* one appended row
SplitBy(k) == \E a \in (Len(gdf) + 1)..Len(gdf') : RowsOf(gdf', gdf[k].idx) = {k, a}

\* the appended row of a split cell
Appended(k) == CHOOSE a \in (Len(gdf) + 1)..Len(gdf') : gdf'[a].idx = gdf[k].idx

\* the position of a technology in the column order
TechPos(name) == CHOOSE t \in 1..Len(Techs) : Techs[t] = name

\* the largest net benefit of a row over a set of column positions
IsMaxOver(nb, t, cols) == t \in cols /\ \A u \in cols : RLe(nb[u], nb[t])

NonGrid == {t \in 1..Len(Techs) : Techs[t] # "Electricity"}

\* the Calibrated_pop of the rows of a table that are marked Current_elec = 1, summed
MarkedPop(table) ==
    SumSeq([k \in 1..Len(table) |->
              IF table[k].Current_elec = 1 THEN table[k].Calibrated_pop ELSE NaN])

\* the iteration of Phase A after which the loop test fails
LastIterA == pc = "A_loop" /\ pc' = "A_loop" /\ LoopCondA /\ ~LoopCondA'

C2_AsStated ==
    [][LastIterA => RLe(MarkedPop(gdf'), Target') /\ RLt(elec_pop, MarkedPop(gdf'))]_vars

(***************************************************************************)
(* C2 amended.  When Phase A stops, the summed Calibrated_pop of the cells *)
(* marked Current_elec = 1 is strictly greater than Elec_rate times the    *)
(* total calibrated population (the loop stops on the first overshoot),    *)
(* and strictly greater than the sum reached one iteration earlier, which  *)
(* was at most that target.                                                *)
(***************************************************************************)
C2_Overshoot ==
    [][LastIterA =>
         /\ RLt(Target', MarkedPop(gdf'))
         /\ RLt(elec_pop, MarkedPop(gdf'))
         /\ RLe(elec_pop, Target)]_vars

\* Phase A has stopped with one cell marked and another one not
C2_Witness ==
    /\ pc = "A_done"
    /\ \E k \in 1..Len(gdf) : gdf[k].Current_elec = 1
    /\ \E k \in 1..Len(gdf) : gdf[k].Current_elec = 0 /\ RLt(R(0), gdf[k].Calibrated_pop)

(***************************************************************************)
(* C3.  When Phase B stops, the sum of Elec_pop_calib over all cells is at *)
(* most Elec_rate times the total calibrated population.                   *)
(***************************************************************************)
C3_FinalAtMostTarget ==
    pc = "B_done" =>
        RLe(SumSeq(Col("Elec_pop_calib")),
            RMul(SumSeq(Col("Calibrated_pop")), specs.Elec_rate))

\* Phase B has stopped after reducing a cell that stays partly electrified, with
\* another populated cell that is not electrified
C3_Witness ==
    /\ pc = "B_done"
    /\ \E k \in 1..Len(gdf) :
          /\ gdf[k].Current_elec = 1
          /\ RLt(gdf[k].Elec_pop_calib, gdf[k].Calibrated_pop)
    /\ \E k \in 1..Len(gdf) : gdf[k].Current_elec = 0 /\ RLt(R(0), gdf[k].Calibrated_pop)

(***************************************************************************)
(* C4.  In every state reached by Phase B and by the later allocation      *)
(* step, each row satisfies 0 <= Elec_pop_calib <= Calibrated_pop,         *)
(* both rows of a split cell included.                                     *)
(***************************************************************************)
C4_ElecWithinPop ==
    pc \in {"B_loop", "B_done", "urban_done", "hh_done", "alloc", "done"} =>
        \A k \in 1..Len(gdf) :
            /\ RLe(R(0), gdf[k].Elec_pop_calib)
            /\ RLe(gdf[k].Elec_pop_calib, gdf[k].Calibrated_pop)

\* a sweep of Phase B has clamped a cell at zero, and later a cell was split
C4_Witness ==
    /\ pc = "done"
    /\ Len(gdf) > NCells
    /\ \E k \in 1..Len(gdf) :
          /\ RLt(R(0), gdf[k].Calibrated_pop)
          /\ REq(gdf[k].Elec_pop_calib, R(0))

(***************************************************************************)
(* C5 as stated.  maximum_net_benefit splits every cell whose chosen       *)
(* technology is Electricity and whose Elec_pop_calib is strictly less     *)
(* than its Calibrated_pop: the cell ends with a grid row and a row of a   *)
(* fallback technology.                                                    *)
(***************************************************************************)
C5_AsStated ==
    [][AllocStep =>
         \A k \in 1..Len(gdf) :
            (/\ gdf'[k].max_benefit_tech = "Electricity"
             /\ RLt(gdf[k].Elec_pop_calib, gdf[k].Calibrated_pop))
            => /\ SplitBy(k)
               /\ gdf'[Appended(k)].max_benefit_tech # "Electricity"]_vars

(***************************************************************************)
(* C5 amended.  maximum_net_benefit splits every cell that is currently    *)
(* electrified (Current_elec = 1), whose chosen technology is Electricity  *)
(* and whose Elec_pop_calib is strictly less than its Calibrated_pop: the  *)
(* cell ends with a grid row and a row of a fallback technology.           *)
(***************************************************************************)
C5_SplitsElectrified ==
    [][AllocStep =>
         \A k \in 1..Len(gdf) :
            (/\ gdf[k].Current_elec = 1
             /\ gdf'[k].max_benefit_tech = "Electricity"
             /\ RLt(gdf[k].Elec_pop_calib, gdf[k].Calibrated_pop))
            => /\ SplitBy(k)
               /\ gdf'[Appended(k)].max_benefit_tech # "Electricity"]_vars

\* a partly electrified cell that chose Electricity has been split
C5_Witness ==
    /\ pc = "done"
    /\ \E k \in 1..NCells : \E a \in (NCells + 1)..Len(gdf) :
          /\ gdf[a].idx = gdf[k].idx
          /\ gdf[k].Current_elec = 1
          /\ gdf[k].max_benefit_tech = "Electricity"
          /\ gdf[a].max_benefit_tech # "Electricity"

(***************************************************************************)
(* C6.  In one run of maximum_net_benefit, a cell whose chosen technology  *)
(* is not Electricity, or whose Elec_pop_calib equals its Calibrated_pop,  *)
(* or that is not currently electrified, keeps exactly one row with its    *)
(* population, households and maximum_net_benefit unscaled; and the run    *)
(* appends at most one row per original cell.                              *)
(***************************************************************************)
C6_OthersUntouched ==
    [][AllocStep =>
         /\ \A k \in 1..Len(gdf) :
               (\/ gdf'[k].max_benefit_tech # "Electricity"
                \/ REq(gdf[k].Elec_pop_calib, gdf[k].Calibrated_pop)
                \/ gdf[k].Current_elec # 1)
               => /\ RowsOf(gdf', gdf[k].idx) = {k}
                  /\ gdf'[k].Calibrated_pop = gdf[k].Calibrated_pop
                  /\ gdf'[k].Households = gdf[k].Households
                  /\ \E t \in 1..Len(Techs) :
                        /\ IsMaxOver(gdf[k].net_benefit, t, 1..Len(Techs))
                        /\ gdf'[k].maximum_net_benefit = gdf[k].net_benefit[t]
         /\ \A k \in 1..Len(gdf) : Cardinality(RowsOf(gdf', gdf[k].idx)) <= 2
         /\ \A a \in 1..Len(gdf') : \E k \in 1..Len(gdf) : gdf'[a].idx = gdf[k].idx]_vars

\* a run that split one cell and left alone another one that chose Electricity
C6_Witness ==
    /\ pc = "done"
    /\ Len(gdf) > NCells
    /\ \E k \in 1..NCells :
          /\ RowsOf(gdf, gdf[k].idx) = {k}
          /\ gdf[k].max_benefit_tech = "Electricity"
          /\ RLt(R(0), gdf[k].Calibrated_pop)

(***************************************************************************)
(* C7.  For a split cell with served fraction f = Elec_pop_calib /         *)
(* Calibrated_pop, the existing row keeps technology Electricity with      *)
(* maximum_net_benefit, Calibrated_pop and Households multiplied by f, and *)
(* the new row gets the technology with the highest net benefit among the  *)
(* non-grid technologies, with that net benefit, Calibrated_pop and        *)
(* Households multiplied by 1 - f.  Example: population 100, grid benefit  *)
(* 10, electrified 40, second-best benefit 6 give (40, grid, 4) and        *)
(* (60, second-best, 3.6).                                                 *)
(***************************************************************************)
C7_ExampleRow ==
    [idx |-> 1, Calibrated_pop |-> R(100), Elec_dist |-> R(0), Night_lights |-> R(0),
     Current_elec |-> 1, Elec_pop_calib |-> R(40), IsUrban |-> 0, Households |-> R(50),
     net_benefit |-> <<R(6), R(10), R(2)>>, max_benefit_tech |-> "",
     maximum_net_benefit |-> NaN]

C7_Example ==
    LET out == Allocated(<<C7_ExampleRow>>)
    IN  /\ Len(out) = 2
        /\ out[1].Calibrated_pop = R(40)
        /\ out[1].max_benefit_tech = "Electricity"
        /\ out[1].maximum_net_benefit = R(4)
        /\ out[2].Calibrated_pop = R(60)
        /\ out[2].max_benefit_tech = "LPG"
        /\ out[2].maximum_net_benefit = Frac(36, 10)

C7_SplitRows ==
    [][AllocStep =>
         /\ C7_Example
         /\ \A k \in 1..Len(gdf) :
               SplitBy(k) =>
                  LET a == Appended(k)
                      f == RDiv(gdf[k].Elec_pop_calib, gdf[k].Calibrated_pop)
                      g == RSub(R(1), f)
                      nb == gdf[k].net_benefit
                      t == TechPos(gdf'[a].max_benefit_tech)
                  IN  /\ gdf'[k].max_benefit_tech = "Electricity"
                      /\ REq(gdf'[k].maximum_net_benefit, RMul(nb[TechPos("Electricity")], f))
                      /\ REq(gdf'[k].Calibrated_pop, RMul(gdf[k].Calibrated_pop, f))
                      /\ REq(gdf'[k].Households, RMul(gdf[k].Households, f))
                      /\ IsMaxOver(nb, t, NonGrid)
                      /\ REq(gdf'[a].maximum_net_benefit, RMul(nb[t], g))
                      /\ REq(gdf'[a].Calibrated_pop, RMul(gdf[k].Calibrated_pop, g))
                      /\ REq(gdf'[a].Households, RMul(gdf[k].Households, g))]_vars

\* a split cell whose fallback row holds a technology that beats another non-grid one
C7_Witness ==
    /\ pc = "done"
    /\ \E k \in 1..NCells : \E a \in (NCells + 1)..Len(gdf) :
          /\ gdf[a].idx = gdf[k].idx
          /\ gdf[a].max_benefit_tech = "Biogas"
          /\ RLt(gdf[a].net_benefit[TechPos("LPG")], gdf[a].net_benefit[TechPos("Biogas")])
          /\ RLt(R(0), gdf[a].Households)

(***************************************************************************)
(* C8.  For every cell, max_benefit_tech is a technology whose net benefit *)
(* is the maximum over all net_benefit columns, maximum_net_benefit        *)
(* (before any split scaling) equals that maximum, and when several        *)
(* technologies tie for the maximum the first one in column order is       *)
(* chosen.                                                                 *)
(***************************************************************************)
C8_FirstArgmax ==
    pc = "done" =>
        \A k \in 1..NCells :
            LET nb == gdf[k].net_benefit
                t == TechPos(gdf[k].max_benefit_tech)
            IN  /\ IsMaxOver(nb, t, 1..Len(Techs))
                /\ \A u \in 1..(t - 1) : RLt(nb[u], nb[t])
                /\ IF RowsOf(gdf, gdf[k].idx) = {k}
                   THEN gdf[k].maximum_net_benefit = nb[t]
                   ELSE REq(RMul(gdf[k].maximum_net_benefit, gdf[k].Calibrated_pop),
                            RMul(nb[t], gdf[k].Elec_pop_calib))

\* a cell with two technologies tied for the maximum
C8_Witness ==
    /\ pc = "done"
    /\ \E k \in 1..NCells : \E t, u \in 1..Len(Techs) :
          /\ t < u
          /\ IsMaxOver(gdf[k].net_benefit, t, 1..Len(Techs))
          /\ REq(gdf[k].net_benefit[t], gdf[k].net_benefit[u])
          /\ gdf[k].max_benefit_tech = Techs[t]

(***************************************************************************)
(* C9.  For every input, including a total population of zero or a target  *)
(* rate that cannot be reached (Elec_rate >= 1), Phase A and Phase B stop   *)
(* after a bounded number of steps and report non-convergence instead of    *)
(* looping forever: the loop of current_elec never gets to a threshold      *)
(* below 0 with its test still true, the point from which no further        *)
(* iteration changes bool or elec_pop and the test can never fail.          *)
(***************************************************************************)
C9_NoEndlessLoop == pc # "A_spin"

(***************************************************************************)
(* C10.  The urban factor search runs its classify-and-adjust loop body at  *)
(* most 500 times (urban_i counts the executions of the body), and when the *)
(* loop is left before the cap the modelled share is within 0.01 of the     *)
(* target.                                                                  *)
(***************************************************************************)
C10_AtMost500 ==
    /\ urban_i <= MaxUrbanIter
    /\ (pc = "urban_done" /\ urban_i < MaxUrbanIter) => ~LoopCondUrban

(***************************************************************************)
(* C11.  After the urban classification (IsUrban 0 rural, 1 peri-urban,    *)
(* 2 urban) and number_of_households, the Households of every cell is its  *)
(* Calibrated_pop divided by the household size of its class: Urban_HHsize *)
(* for a cell classified urban, Rural_HHsize for a cell classified rural.  *)
(***************************************************************************)
C11_HouseholdsByClass ==
    pc = "hh_done" =>
       \A k \in 1..Len(gdf) :
          /\ gdf[k].IsUrban = 2 =>
                REq(gdf[k].Households, RDiv(gdf[k].Calibrated_pop, specs.Urban_HHsize))
          /\ gdf[k].IsUrban = 0 =>
                REq(gdf[k].Households, RDiv(gdf[k].Calibrated_pop, specs.Rural_HHsize))

(***************************************************************************)
(* C12.  For every Pop column whose sum is positive, calibrate_current_pop *)
(* yields Calibrated_pop values whose sum is Population_start_year, every  *)
(* cell being scaled by the same factor Population_start_year / sum(Pop).  *)
(***************************************************************************)
C12_SumIsTarget ==
    (pc = "pop_done" /\ RLt(R(0), SumSeq(Col("Pop")))) =>
       /\ REq(SumSeq(Col("Calibrated_pop")), specs.Population_start_year)
       /\ \A k \in 1..Len(gdf) :
             REq(gdf[k].Calibrated_pop,
                 RMul(gdf[k].Pop, RDiv(specs.Population_start_year, SumSeq(Col("Pop")))))

\* a calibrated table whose cells hold different populations and whose raw sum is
\* positive and is not the target
C12_Witness ==
    /\ pc = "pop_done"
    /\ RLt(R(0), SumSeq(Col("Pop")))
    /\ ~REq(SumSeq(Col("Pop")), specs.Population_start_year)
    /\ \E k \in 1..Len(gdf) : RLt(R(0), gdf[k].Pop) /\ ~REq(gdf[k].Calibrated_pop, gdf[k].Pop)
    /\ \E k, m \in 1..Len(gdf) : RLt(gdf[k].Pop, gdf[m].Pop)

(***************************************************************************)
(* C13.  For every column with max > min, every value returned by          *)
(* normalized lies in [0, 1], and the value returned with inverse = True   *)
(* is 1 minus the value returned with inverse = False at every position.   *)
(***************************************************************************)
C13_UnitRangeAndInverse ==
    (pc = "norm_done" /\ RLt(MinSeq(Col("column")), MaxSeq(Col("column")))) =>
       \A k \in 1..Len(gdf) :
          /\ RLe(R(0), ret.value[k])
          /\ RLe(ret.value[k], R(1))
          /\ REq(ret.value[k], RSub(R(1), normalized(Col("column"), ~ret.inverse)[k]))

\* a call with inverse = True on a column of three different values: one of the
\* values returned is strictly inside (0, 1)
C13_Witness ==
    /\ pc = "norm_done"
    /\ ret.inverse
    /\ RLt(MinSeq(Col("column")), MaxSeq(Col("column")))
    /\ \E k \in 1..Len(gdf) : RLt(R(0), ret.value[k]) /\ RLt(ret.value[k], R(1))

(***************************************************************************)
(* C14.  Normalizing a column whose maximum equals its minimum ends in an  *)
(* explicit error (DegenerateRangeError) and never returns NaN values that *)
(* flow into the composite electrification score: once current_elec has   *)
(* built self.combined_weight, no score of a cell is NaN.                  *)
(***************************************************************************)
C14_NoNaNScore ==
    pc # "start" => \A k \in 1..Len(combined_weight) : ~IsNaN(combined_weight[k])

\* the sum of the weights of the layers
WeightSum == PySum([j \in 1..Len(layers) |-> R(layers[j].weight)])

\* the weighted mean of the layers at cell k
WeightedMean(k) ==
    RDiv(PySum([j \in 1..Len(layers) |-> RMul(R(layers[j].weight), layers[j].layer[k])]),
         WeightSum)

(***************************************************************************)
(* C15.  The weighted index combiner returns, at every position, the sum   *)
(* of weight times value over the layers divided by the sum of the weights *)
(* when that sum is positive, and ends in an explicit error                *)
(* (InvalidWeightsError) when the sum of the weights is not positive.      *)
(***************************************************************************)
C15_IndexContract ==
    pc = "index_done" =>
       IF RLt(R(0), WeightSum)
       THEN /\ ret.outcome = "returned"
            /\ \A k \in Cells : REq(ret.value[k], WeightedMean(k))
       ELSE ret.outcome = "InvalidWeightsError"

(***************************************************************************)
(* C16.  When Phase A (current_elec) stops, the threshold it stores for    *)
(* Phase B is the last threshold it applied, so the cells marked           *)
(* Current_elec = 1 are exactly the cells whose composite score is >= the  *)
(* stored threshold.                                                       *)
(***************************************************************************)
C16_AsStated ==
    pc = "A_done" =>
       \A k \in 1..Len(gdf) : gdf[k].Current_elec = 1 <=> RLe(self_i, combined_weight[k])

\* C16 as the code has it: the stored threshold is one step below the last
\* threshold applied, and the cells marked are exactly the cells whose score is
\* >= the stored threshold plus one step.
C16_StoredOneStepBelow ==
    pc = "A_done" =>
       /\ self_i = i
       /\ \A k \in 1..Len(gdf) :
             gdf[k].Current_elec = 1 <=> RLe(RAdd(self_i, Step), combined_weight[k])

\* Phase A has stopped with a marked cell and with an unmarked cell whose score lies
\* between the stored threshold and the last threshold applied
C16_Witness ==
    /\ pc = "A_done"
    /\ \E k \in 1..Len(gdf) : gdf[k].Current_elec = 1
    /\ \E k \in 1..Len(gdf) :
          /\ gdf[k].Current_elec = 0
          /\ RLe(self_i, combined_weight[k])
          /\ RLt(combined_weight[k], RAdd(self_i, Step))

\* a sweep of the loop of final_elec
SweepB == pc = "B_loop" /\ pc' = "B_loop"

\* the cells that are electrified
Electrified == {k \in 1..Len(gdf) : gdf[k].Current_elec = 1}

\* the cells whose Elec_pop_calib a step lowers to a value that is still positive
Lowered == {k \in 1..Len(gdf) : /\ RLt(gdf'[k].Elec_pop_calib, gdf[k].Elec_pop_calib)
                                /\ RLt(R(0), gdf'[k].Elec_pop_calib)}

(***************************************************************************)
(* C17.  In each Phase B decrement sweep, the amount subtracted from a     *)
(* cell being reduced equals the current surplus (electrified population   *)
(* minus the target) divided by the number of cells that are currently     *)
(* electrified, and only still-electrified cells are reduced.              *)
(***************************************************************************)
C17_AsStated ==
    [][SweepB =>
         \A k \in Lowered :
            /\ k \in Electrified
            /\ REq(RSub(gdf[k].Elec_pop_calib, gdf'[k].Elec_pop_calib),
                   RDiv(RSub(elec_pop, Target), R(Cardinality(Electrified))))]_vars

\* C17 as the code has it: the decrement is computed once, before the first sweep,
\* as the surplus Phase A left divided by the number of rows of the table; every
\* sweep subtracts that same amount from every cell of the band, electrified or
\* not, and clamps at zero.
C17_FixedDecrement ==
    [][/\ (pc = "A_done" /\ pc' = "B_loop") =>
             factor' = RDiv(RSub(MarkedPop(gdf), RMul(SumSeq(Col("Calibrated_pop")),
                                                      specs.Elec_rate)),
                            R(Len(gdf)))
       /\ SweepB =>
             /\ factor' = factor
             /\ \A k \in 1..Len(gdf) :
                   gdf'[k].Elec_pop_calib =
                      IF ~Band(k) THEN gdf[k].Elec_pop_calib
                      ELSE IF RLt(RSub(gdf[k].Elec_pop_calib, factor), R(0)) THEN R(0)
                      ELSE RSub(gdf[k].Elec_pop_calib, factor)]_vars

\* after a sweep: an electrified cell has been lowered by the decrement and keeps a
\* positive electrified population, another cell is not electrified, and the
\* surplus is no longer the one the decrement was computed from
C17_Witness ==
    /\ pc = "B_loop"
    /\ \E k \in 1..Len(gdf) :
          /\ gdf[k].Current_elec = 1
          /\ RLt(R(0), gdf[k].Elec_pop_calib)
          /\ REq(gdf[k].Elec_pop_calib, RSub(gdf[k].Calibrated_pop, factor))
    /\ \E k \in 1..Len(gdf) : gdf[k].Current_elec = 0
    /\ ~REq(RSub(elec_pop, Target), RMul(factor, R(Len(gdf))))

(***************************************************************************)
(* C18.  During Phase A (current_elec), a cell that has been marked        *)
(* Current_elec = 1 at some iteration stays marked in every later          *)
(* iteration of the phase: from one iteration to the next neither the set  *)
(* of electrified cells nor their cumulative population shrinks.           *)
(***************************************************************************)
C18_MonotoneMarks ==
    [][(pc = "A_loop" /\ pc' = "A_loop") =>
         /\ \A k \in 1..Len(gdf) : gdf[k].Current_elec = 1 => gdf'[k].Current_elec = 1
         /\ RLe(elec_pop, elec_pop')]_vars

\* Phase A is in its loop after a cell was marked in an earlier iteration and
\* another one in the last iteration
C18_Witness ==
    /\ pc = "A_loop"
    /\ \E k, m \in 1..Len(gdf) :
          /\ gdf[k].Current_elec = 1
          /\ gdf[m].Current_elec = 1
          /\ RLe(RAdd(i, RAdd(Step, Step)), combined_weight[k])
          /\ RLt(combined_weight[m], RAdd(i, RAdd(Step, Step)))
          /\ RLt(R(0), gdf[k].Calibrated_pop)
          /\ RLt(R(0), gdf[m].Calibrated_pop)

\* the columns of a row that maximum_net_benefit may write
Written == {"max_benefit_tech", "maximum_net_benefit", "Calibrated_pop", "Elec_pop_calib",
            "Households"}

\* rows a and b agree on every column outside Written
SameElsewhere(a, b) ==
    /\ DOMAIN a = DOMAIN b
    /\ \A c \in (DOMAIN a) \ Written : a[c] = b[c]

(***************************************************************************)
(* C20.  maximum_net_benefit never changes a net_benefit_<technology>      *)
(* value of an existing row, and the row appended for a split cell carries *)
(* the per-technology net benefits of the original row; only               *)
(* max_benefit_tech, maximum_net_benefit, Calibrated_pop, Elec_pop_calib   *)
(* and Households are written.                                             *)
(***************************************************************************)
C20_NetBenefitReadOnly ==
    [][AllocStep =>
         /\ \A k \in 1..Len(gdf) :
               /\ gdf'[k].net_benefit = gdf[k].net_benefit
               /\ SameElsewhere(gdf'[k], gdf[k])
         /\ \A a \in (Len(gdf) + 1)..Len(gdf') :
               \E k \in 1..Len(gdf) :
                  /\ gdf[k].idx = gdf'[a].idx
                  /\ gdf'[a].net_benefit = gdf[k].net_benefit
                  /\ SameElsewhere(gdf'[a], gdf[k])]_vars

\* the allocation has appended a row whose technology is not the one of the original
\* row of its cell, and the net benefits of the two rows are not all the same number
C20_Witness ==
    /\ pc = "done"
    /\ \E a \in (NCells + 1)..Len(gdf) :
          \E k \in 1..NCells :
             /\ gdf[k].idx = gdf[a].idx
             /\ gdf[a].max_benefit_tech # gdf[k].max_benefit_tech
             /\ \E t, u \in 1..Len(Techs) : gdf[a].net_benefit[t] # gdf[a].net_benefit[u]
             /\ RLt(R(0), gdf[a].Calibrated_pop)

\* the position of a stage in the order of the pipeline
StagePos(s) == CHOOSE p \in 1..Len(Stages) : Stages[p] = s

\* every stage before s in the order of the pipeline is among the stages done
InOrder(s, done) == \A p \in 1..(StagePos(s) - 1) : Stages[p] \in done

\* the columns a stage is there to produce
Outputs(s) ==
    IF s = "calibrate_current_pop" THEN {"Calibrated_pop"}
    ELSE IF s = "current_elec" THEN {"Current_elec"}
    ELSE IF s = "final_elec" THEN {"Elec_pop_calib"}
    ELSE IF s = "calibrate_urban_manual" THEN {"IsUrban"}
    ELSE IF s = "number_of_households" THEN {"Households"}
    ELSE {"max_benefit_tech", "maximum_net_benefit"}

(***************************************************************************)
(* C19.  The stages run only in the fixed order population calibration,    *)
(* Phase A, Phase B, urban classification and households, allocation: a    *)
(* stage called before an earlier stage of that order has completed in the *)
(* session fails, and fails without producing its output columns.          *)
(***************************************************************************)
C19_OutOfOrderFails ==
    [][(called' # "none" /\ ~InOrder(called', completed)) =>
          /\ raised' # "none"
          /\ wrote' \cap Outputs(called') = {}]_vars

\* the precondition of C21: positive total population, 0 <= Elec_rate < 1, positive
\* weights and a defined score for every cell
PhaseAInputsValid ==
    /\ RLt(R(0), SumSeq(Col("Calibrated_pop")))
    /\ RLe(R(0), specs.Elec_rate)
    /\ RLt(specs.Elec_rate, R(1))
    /\ RLt(R(0), specs.infra_weight)
    /\ RLt(R(0), specs.Min_Elec_Pop)
    /\ RLt(R(0), specs.Min_Night_Lights)
    /\ \A k \in 1..Len(combined_weight) : ~IsNaN(combined_weight[k])

(***************************************************************************)
(* C21.  Phase A (current_elec) terminates whenever the total calibrated   *)
(* population is positive, 0 <= Elec_rate < 1, the three score weights are *)
(* positive and every composite score is a defined number: the loop, once  *)
(* entered, is left with the cumulative electrified population above the   *)
(* target.                                                                 *)
(***************************************************************************)
C21_PhaseATerminates ==
    (pc = "A_loop" /\ PhaseAInputsValid) ~> (pc = "A_done" /\ RLt(Target, elec_pop))

\* Phase A has stopped on valid inputs after the threshold went below its first value
\* more than once
C21_Witness ==
    /\ pc = "A_done"
    /\ PhaseAInputsValid
    /\ RLt(Target, elec_pop)
    /\ RLt(self_i, RSub(R(1), Step))

(***************************************************************************)
(* C22.  Phase B (final_elec), run right after a terminated Phase A with   *)
(* the same Elec_rate, terminates: in no run does it come to an iteration  *)
(* that leaves the table, the electrified population and the band as they  *)
(* were while the loop test still holds.                                   *)
(***************************************************************************)
C22_NoEndlessSweep == pc # "B_spin"

\* C22 in exact arithmetic: in every iteration of the loop of Phase B either an
\* electrified cell of the current score band loses a positive amount of electrified
\* population or the upper bound of the band advances, and the loop is left.
C22_PhaseBTerminates ==
    /\ [][SweepB =>
            \/ \E k \in Electrified :
                  /\ Band(k)
                  /\ RLt(gdf'[k].Elec_pop_calib, gdf[k].Elec_pop_calib)
            \/ i' = RAdd(i, Step)]_vars
    /\ (pc = "B_loop") ~> (pc = "B_done" /\ RLe(elec_pop, Target))

(***************************************************************************)
(* C23.  After final_elec has terminated (run right after current_elec     *)
(* with the same Elec_rate), the electrified flag and the electrified      *)
(* population agree for every cell: Current_elec = 1 implies               *)
(* Elec_pop_calib > 0, and Current_elec = 0 implies Elec_pop_calib = 0.    *)
(***************************************************************************)
C23_FlagAgreesWithPopulation ==
    pc = "B_done" =>
        \A k \in 1..Len(gdf) :
            /\ gdf[k].Current_elec \in {0, 1}
            /\ gdf[k].Current_elec = 1 => RLt(R(0), gdf[k].Elec_pop_calib)
            /\ gdf[k].Current_elec = 0 => REq(gdf[k].Elec_pop_calib, R(0))

\* Phase B has ended with a cell that is still electrified, and with a populated cell
\* that Phase A had marked and the sweeps have switched off
C23_Witness ==
    /\ pc = "B_done"
    /\ \E k \in 1..Len(gdf) : gdf[k].Current_elec = 1
    /\ \E k \in 1..Len(gdf) :
          /\ gdf[k].Current_elec = 0
          /\ RLt(R(0), gdf[k].Calibrated_pop)
          /\ RLe(RAdd(self_i, Step), combined_weight[k])

(***************************************************************************)
(* C24.  maximum_net_benefit is idempotent on its own output: a second run *)
(* on the table of a first run appends no row and changes no row's         *)
(* max_benefit_tech, maximum_net_benefit, Calibrated_pop, Elec_pop_calib   *)
(* or Households.                                                          *)
(***************************************************************************)
C24_Idempotent ==
    pc = "done" =>
        LET again == Allocated(gdf)
        IN  /\ Len(again) = Len(gdf)
            /\ \A k \in 1..Len(gdf) :
                  /\ again[k].max_benefit_tech = gdf[k].max_benefit_tech
                  /\ again[k].maximum_net_benefit = gdf[k].maximum_net_benefit
                  /\ again[k].Calibrated_pop = gdf[k].Calibrated_pop
                  /\ again[k].Elec_pop_calib = gdf[k].Elec_pop_calib
                  /\ again[k].Households = gdf[k].Households

=============================================================================
